---- MODULE Spec2Model ----
(***************************************************************************)
(* Model of the jobs-ui client: the JobsPage list controller (App.jsx),    *)
(* the client-side sort of the loaded page, and the AdminRunsPage poller.   *)
(*                                                                         *)
(* React scheduling as modelled here: an event handler's state updates are *)
(* batched, the component re-renders, and the effects whose dependencies   *)
(* changed run (cleanup of the previous run first) before the next event   *)
(* or promise continuation is processed.  One action therefore covers the  *)
(* handler, the re-render and the effects it triggers.  The continuation   *)
(* of an awaited request (try / catch / finally after the await) runs      *)
(* without an intervening await and is one action per completion.          *)
(***************************************************************************)
EXTENDS Integers, Sequences, FiniteSets, TLC

\* ------------------------------------------------------------------ bounds
MaxRequests == 3     \* GET /jobs requests issued in one behaviour
MaxPage == 1         \* highest page index explored
PartialLen == 12     \* size of a short (non-full) page returned by the backend
MaxRows == 5         \* longest page whose sorted order is explored
MaxToggles == 2      \* consecutive clicks on the active column that are tracked
MaxRunFetches == 3   \* GET /runs requests issued in one behaviour
MaxRuns == 2         \* longest run list returned by the backend
MaxLogFetches == 2   \* GET /runs/{id}/logs requests issued in one behaviour

\* ------------------------------------------------------- program constants
PAGE_SIZE == 50
SKELETON_ROWS == 10
POLL_INTERVAL_MS == 5000

\* JavaScript null; the empty string is "".
Null == "null"

\* JavaScript truthiness of a string-or-null value: `if (v)`.
Truthy(v) == v # Null /\ v # ""

\* JavaScript `v || null`.
OrNull(v) == IF Truthy(v) THEN v ELSE Null

\* Values typed or picked in FiltersBar ("" is the cleared control).
VendorInputs == {"", "acme"}
SearchInputs == {"", "dev"}
SinceInputs == {"", "2024-01-01"}

\* Messages of a rejected apiGet (err.message); "" stands for an error
\* without a message.
ErrMessages == {"", "API GET failed: 500"}

SortFields == {"date", "title", "location", "company"}

VARIABLES
  mounted,        \* JobsPage: the first render's effects have run
  jobs,           \* useState([]): the loaded page, a sequence of job records
  page,           \* useState(0)
  isLoading,      \* useState(false)
  error,          \* useState(null)
  sortField,      \* useState("date")
  sortDirection,  \* useState("desc")
  filters,        \* useState({vendor, searchTerm, since})
  inflight,       \* requests whose apiGet promise is pending, each with the
                  \* `cancelled` flag of the effect closure that issued it
  nextId,         \* number of GET /jobs requests issued so far
  lastReq,        \* the request most recently issued: {} or a singleton
  jobsFrom,       \* history: id of the request whose completion last set jobs
  lastApplied,    \* history: the last completion that was applied to state
  lastOkLen,      \* history: records in the last applied success (-1: none)
  lastOp,         \* history: the last handler / continuation that ran
  engine,         \* the JavaScript engine's Array.prototype.sort algorithm
  toggles,        \* history: consecutive clicks on the active sort column
  baseShown,      \* history: the row order shown before those clicks
  runsMounted,    \* AdminRunsPage: "no" before mount, "yes", then "gone"
  runs,           \* useState([]): the run list
  runsIsLoading,  \* useState(false)
  runsError,      \* useState(null)
  timers,         \* live setInterval handles, each its period in ms
  runsInflight,   \* pending fetchRuns() calls: [id, origin]
  runsNextId,     \* number of GET /runs requests issued so far
  lastRunsOp,     \* history: the last AdminRunsPage step and its request
  selectedRun,    \* useState(null): id of the run whose logs are shown, 0: null
  logsIsLoading,  \* RunLogsModal: useState(true)
  logsError,      \* RunLogsModal: useState(null)
  logsInflight,   \* pending fetchLogs() calls with their `cancelled` flag
  logsNextId,     \* number of GET /runs/{id}/logs requests issued so far
  logsSinceOpen,  \* history: log requests issued since the modal was opened
  currentUser,    \* App: useState(null), [present, role]
  authChecked,    \* App: useState(false)
  authState,      \* GET /auth/me: "idle" before mount, "pending", "done"
  location,       \* the router's current path
  loginPending,   \* LoginPage submissions whose apiPost is pending
  logoutPending,  \* handleLogout calls whose apiPost is pending
  lastAppOp,      \* history: the last App step and the outcome it handled
  csrfCookie,     \* value of the csrf_token cookie, Null when absent
  sameOrigin,     \* API_BASE_URL has the origin of the page
  sent,           \* history: the fetch() calls made so far, in order
  vendors,        \* FiltersBar: useState([])
  isLoadingVendors, \* FiltersBar: useState(false)
  vendorsError,   \* FiltersBar: useState(null)
  vendorsState,   \* GET /vendors: "idle" before mount, "pending", "done"
  vendorsData,    \* history: the body GET /vendors returned
  runsBody,       \* history: kind of the last applied GET /runs outcome
  users,          \* AdminUsersPage: useState([])
  usersIsLoading, \* AdminUsersPage: useState(false)
  usersError,     \* AdminUsersPage: useState(null)
  usersState,     \* GET /admin/users: "idle" before mount, "pending", ...
  usersBody,      \* history: kind of the body GET /admin/users returned
  searchInput,    \* FiltersBar: useState(searchTerm ?? "")
  searchTimeoutRef, \* FiltersBar: useRef(null), id of the last timer, 0: null
  searchTimers,   \* pending setTimeout callbacks: [id, value, due]
  clock,          \* the time, in ms
  lastKeyAt,      \* history: time of the last keystroke, -1: none
  keystrokes      \* history: number of keystrokes so far

jobsVars == <<mounted, jobs, page, isLoading, error, sortField, sortDirection,
              filters, inflight, nextId, lastReq, jobsFrom, lastApplied,
              lastOkLen, lastOp>>

sortHist == <<engine, toggles, baseShown>>

logsVars == <<selectedRun, logsIsLoading, logsError, logsInflight, logsNextId,
              logsSinceOpen>>

runsVars == <<runsMounted, runs, runsIsLoading, runsError, timers,
              runsInflight, runsNextId, lastRunsOp, logsVars, runsBody>>

appVars == <<currentUser, authChecked, authState, location, loginPending,
             logoutPending, lastAppOp>>

httpVars == <<csrfCookie, sameOrigin, sent>>

vendorVars == <<vendors, isLoadingVendors, vendorsError, vendorsState,
                vendorsData>>

usersVars == <<users, usersIsLoading, usersError, usersState, usersBody>>

searchVars == <<searchInput, searchTimeoutRef, searchTimers, clock, lastKeyAt,
                keystrokes>>

shellVars == <<appVars, httpVars, vendorVars, usersVars, searchVars>>

vars == <<jobsVars, sortHist, runsVars, shellVars>>

\* What a step of one component leaves alone.
JobsFrame == UNCHANGED <<sortHist, runsVars, shellVars>>

RunsFrame == UNCHANGED <<jobsVars, sortHist, shellVars>>

AppFrame == UNCHANGED <<jobsVars, sortHist, runsVars, httpVars, vendorVars,
                        usersVars, searchVars>>

HttpFrame == UNCHANGED <<jobsVars, sortHist, runsVars, appVars, vendorVars,
                         usersVars, searchVars>>

VendorsFrame == UNCHANGED <<jobsVars, sortHist, runsVars, appVars, httpVars,
                            usersVars, searchVars>>

UsersFrame == UNCHANGED <<jobsVars, sortHist, runsVars, appVars, httpVars,
                          vendorVars, searchVars>>

\* ------------------------------------------------------------ the backend
\* A job record; fields the backend leaves out read as undefined (Null).
JobRec(k) ==
  [PostingID |-> k, PositionTitle |-> Null, PostDate |-> Null,
   RawLocation |-> Null, City |-> Null, State |-> Null, Vendor |-> Null]

\* The page of n records the backend returns from offset o.
MakePage(o, n) == [i \in 1..n |-> JobRec(o + i)]

\* Bodies of a successful GET /jobs: an array of 0, PartialLen or PAGE_SIZE
\* records, or a JSON value that is not an array.
RespLens == {0, PartialLen, PAGE_SIZE}

Responses(o) ==
  {[isArray |-> TRUE, rows |-> MakePage(o, n)] : n \in RespLens}
    \cup {[isArray |-> FALSE, rows |-> <<>>]}

\* ------------------------------------------------------------- JobsPage
\* Faulty variant: the offset is the page index, not page * PAGE_SIZE.
BuildParamsNoScale(pg, flt) ==
  ("limit" :> PAGE_SIZE) @@ ("offset" :> pg)
    @@ (IF Truthy(flt.vendor) THEN "vendor" :> flt.vendor ELSE <<>>)
    @@ (IF Truthy(flt.searchTerm) THEN "q" :> flt.searchTerm ELSE <<>>)
    @@ (IF Truthy(flt.since) THEN "since" :> flt.since ELSE <<>>)

\* URLSearchParams built by fetchJobs.  Numbers stand for their decimal
\* strings (String(n) is injective).
BuildParams(pg, flt) ==
  ("limit" :> PAGE_SIZE) @@ ("offset" :> pg * PAGE_SIZE)
    @@ (IF Truthy(flt.vendor) THEN "vendor" :> flt.vendor ELSE <<>>)
    @@ (IF Truthy(flt.searchTerm) THEN "q" :> flt.searchTerm ELSE <<>>)
    @@ (IF Truthy(flt.since) THEN "since" :> flt.since ELSE <<>>)

NewRequest(id, pg, flt) ==
  [id |-> id, params |-> BuildParams(pg, flt), cancelled |-> FALSE]

\* Faulty variant: the cleanup forgets to set the flag.
EffectCleanupNoCancel(S, cur) == S

\* Cleanup of the fetch effect: `cancelled = true` in the closure of the
\* effect run that is being replaced.
EffectCleanup(S, cur) ==
  {IF r.id = cur THEN [r EXCEPT !.cancelled = TRUE] ELSE r : r \in S}

\* Faulty variant: the effect has no dependency array and runs after every render.
DepsAlwaysChanged(pg, flt, pg2, flt2) == TRUE

\* Faulty variant: the dependency array is [page].
DepsOnlyPage(pg, flt, pg2, flt2) == pg2 # pg

\* The dependency array [page, filters.vendor, filters.searchTerm,
\* filters.since] compared with the previous render's.
DepsChanged(pg, flt, pg2, flt2) ==
  \/ pg2 # pg
  \/ flt2.vendor # flt.vendor
  \/ flt2.searchTerm # flt.searchTerm
  \/ flt2.since # flt.since

\* Faulty variant: fetchJobs() does not call setError(null).
RunFetchEffectKeepError(pg, flt) ==
  LET r == NewRequest(nextId + 1, pg, flt) IN
  /\ nextId < MaxRequests
  /\ inflight' = EffectCleanup(inflight, nextId) \cup {r}
  /\ nextId' = nextId + 1
  /\ lastReq' = {r}
  /\ isLoading' = TRUE
  /\ error' = error

\* The effect body up to the await: fetchJobs() sets isLoading and error and
\* issues the request for the page and filters of this render.
RunFetchEffect(pg, flt) ==
  LET r == NewRequest(nextId + 1, pg, flt) IN
  /\ nextId < MaxRequests
  /\ inflight' = EffectCleanup(inflight, nextId) \cup {r}
  /\ nextId' = nextId + 1
  /\ lastReq' = {r}
  /\ isLoading' = TRUE
  /\ error' = Null

\* Re-render after page / filters became pg / flt: the effect re-runs only
\* when a dependency changed.
Rerender(pg, flt) ==
  IF DepsChanged(page, filters, pg, flt)
    THEN RunFetchEffect(pg, flt)
    ELSE UNCHANGED <<inflight, nextId, lastReq, isLoading, error>>

Tick == 1 - lastOp.tick

Op(name, arg) == [op |-> name, arg |-> arg, tick |-> Tick]

\* First render: the fetch effect runs once.
Mount ==
  /\ ~mounted
  /\ mounted' = TRUE
  /\ RunFetchEffect(page, filters)
  /\ lastOp' = Op("mount", Null)
  /\ JobsFrame
  /\ UNCHANGED <<jobs, page, sortField, sortDirection, filters, jobsFrom,
                 lastApplied, lastOkLen>>

\* Faulty variant: the handler merges the partial but does not call setPage(0).
handleFiltersChangeKeepPage(key, val) ==
  /\ mounted
  /\ page' = page
  /\ filters' = [filters EXCEPT ![key] = val]
  /\ IF DepsChanged(page, filters, page, filters')
       THEN RunFetchEffect(page, filters')
       ELSE UNCHANGED <<inflight, nextId, lastReq, isLoading, error>>
  /\ lastOp' = Op("filters", Null)
  /\ JobsFrame
  /\ UNCHANGED <<mounted, jobs, sortField, sortDirection, jobsFrom,
                 lastApplied, lastOkLen>>

\* handleFiltersChange(partial): setPage(0); setFilters(prev => ({...prev,
\* ...partial})).
MergeFilters(flt, key, val) == [flt EXCEPT ![key] = val]

handleFiltersChange(key, val) ==
  /\ mounted
  /\ page' = 0
  /\ filters' = MergeFilters(filters, key, val)
  /\ Rerender(0, filters')
  /\ lastOp' = Op("filters", Null)
  /\ JobsFrame
  /\ UNCHANGED <<mounted, jobs, sortField, sortDirection, jobsFrom,
                 lastApplied, lastOkLen>>

\* FiltersBar: handleVendorChange, the debounced search callback and
\* setSinceDate each call onChange with one key, "" mapped to null.
handleVendorChange == \E v \in VendorInputs :
  handleFiltersChange("vendor", OrNull(v))

searchTimeout == \E v \in SearchInputs :
  handleFiltersChange("searchTerm", OrNull(v))

setSinceDate == \E v \in SinceInputs :
  handleFiltersChange("since", OrNull(v))

\* Faulty variant: Prev is enabled on the first page too.
canGoPrevAnyPage == ~isLoading

canGoPrev == page > 0 /\ ~isLoading

canGoNext == Len(jobs) = PAGE_SIZE /\ ~isLoading

\* Prev button: onClick={() => canGoPrev && setPage((p) => p - 1)}
PrevClick ==
  /\ mounted
  /\ page' = IF canGoPrev THEN page - 1 ELSE page
  /\ Rerender(page', filters)
  /\ lastOp' = Op("prev", Null)
  /\ JobsFrame
  /\ UNCHANGED <<mounted, jobs, sortField, sortDirection, filters, jobsFrom,
                 lastApplied, lastOkLen>>

\* Next button: onClick={() => canGoNext && setPage((p) => p + 1)}
NextClick ==
  /\ mounted
  /\ page < MaxPage
  /\ page' = IF canGoNext THEN page + 1 ELSE page
  /\ Rerender(page', filters)
  /\ lastOp' = Op("next", Null)
  /\ JobsFrame
  /\ UNCHANGED <<mounted, jobs, sortField, sortDirection, filters, jobsFrom,
                 lastApplied, lastOkLen>>

\* Faulty variant: every newly activated column starts ascending.
SortAfterClickAlwaysAsc(prevField, prevDir, field) ==
  IF prevField = field
    THEN [field |-> prevField,
          dir |-> IF prevDir = "asc" THEN "desc" ELSE "asc"]
    ELSE [field |-> field, dir |-> "asc"]

\* handleSort(field)
SortAfterClick(prevField, prevDir, field) ==
  IF prevField = field
    THEN [field |-> prevField,
          dir |-> IF prevDir = "asc" THEN "desc" ELSE "asc"]
    ELSE [field |-> field, dir |-> IF field = "date" THEN "desc" ELSE "asc"]

\* Faulty variant: sortField is among the fetch effect's dependencies.
handleSortRefetching(field) ==
  /\ mounted
  /\ sortField' = SortAfterClick(sortField, sortDirection, field).field
  /\ sortDirection' = SortAfterClick(sortField, sortDirection, field).dir
  /\ lastOp' = Op("sort", field)
  /\ IF sortField' # sortField
       THEN RunFetchEffect(page, filters)
       ELSE UNCHANGED <<inflight, nextId, lastReq, isLoading, error>>
  /\ UNCHANGED <<mounted, jobs, page, filters, jobsFrom, lastApplied,
                 lastOkLen>>

handleSort(field) ==
  /\ mounted
  /\ sortField' = SortAfterClick(sortField, sortDirection, field).field
  /\ sortDirection' = SortAfterClick(sortField, sortDirection, field).dir
  /\ lastOp' = Op("sort", field)
  /\ UNCHANGED <<mounted, jobs, page, isLoading, error, filters, inflight,
                 nextId, lastReq, jobsFrom, lastApplied, lastOkLen>>

SortClick == \E f \in SortFields : handleSort(f) /\ JobsFrame

\* Faulty variant: a body that is not an array is reported as an error.
ApplySuccessRejectsNonArray(r, data) ==
  IF r.cancelled
    THEN UNCHANGED <<jobs, isLoading, error, jobsFrom, lastApplied,
                     lastOkLen>>
    ELSE /\ jobs' = IF data.isArray THEN data.rows ELSE <<>>
         /\ lastOkLen' = Len(jobs')
         /\ isLoading' = FALSE
         /\ jobsFrom' = r.id
         /\ lastApplied' = [kind |-> "ok", isArray |-> data.isArray,
                            n |-> Len(data.rows)]
         /\ error' = IF data.isArray THEN error ELSE "Unexpected response"

\* Faulty variant: the finally block clears isLoading without testing
\* `cancelled`.
ApplySuccessUnguardedFinally(r, data) ==
  IF r.cancelled
    THEN /\ isLoading' = FALSE
         /\ UNCHANGED <<jobs, error, jobsFrom, lastApplied, lastOkLen>>
    ELSE /\ jobs' = IF data.isArray THEN data.rows ELSE <<>>
         /\ lastOkLen' = Len(jobs')
         /\ isLoading' = FALSE
         /\ jobsFrom' = r.id
         /\ lastApplied' = [kind |-> "ok", isArray |-> data.isArray,
                            n |-> Len(data.rows)]
         /\ UNCHANGED error

\* Continuation of `await apiGet(path)` on success: the try block's tail and
\* the finally block.
ApplySuccess(r, data) ==
  IF r.cancelled
    THEN UNCHANGED <<jobs, isLoading, error, jobsFrom, lastApplied,
                     lastOkLen>>
    ELSE /\ jobs' = IF data.isArray THEN data.rows ELSE <<>>
         /\ lastOkLen' = Len(jobs')
         /\ isLoading' = FALSE
         /\ jobsFrom' = r.id
         /\ lastApplied' = [kind |-> "ok", isArray |-> data.isArray,
                            n |-> Len(data.rows)]
         /\ UNCHANGED error

FetchResolve == \E r \in inflight : \E data \in Responses(r.params["offset"]) :
  /\ inflight' = inflight \ {r}
  /\ ApplySuccess(r, data)
  /\ lastOp' = Op("resolve", Null)
  /\ JobsFrame
  /\ UNCHANGED <<mounted, page, sortField, sortDirection, filters, nextId,
                 lastReq>>

\* Faulty variant: the catch block records the error but keeps the old records.
ApplyFailureKeepJobs(r, msg) ==
  IF r.cancelled
    THEN UNCHANGED <<jobs, isLoading, error, jobsFrom, lastApplied,
                     lastOkLen>>
    ELSE /\ UNCHANGED <<lastOkLen, jobs>>
         /\ error' = IF msg # "" THEN msg ELSE "Failed to load jobs"
         /\ isLoading' = FALSE
         /\ jobsFrom' = r.id
         /\ lastApplied' = [kind |-> "fail", isArray |-> FALSE, n |-> 0]

\* Faulty variant: the catch block stores err.message without the fallback text.
ApplyFailureRawMessage(r, msg) ==
  IF r.cancelled
    THEN UNCHANGED <<jobs, isLoading, error, jobsFrom, lastApplied,
                     lastOkLen>>
    ELSE /\ UNCHANGED lastOkLen
         /\ error' = IF msg # "" THEN msg ELSE Null
         /\ jobs' = <<>>
         /\ isLoading' = FALSE
         /\ jobsFrom' = r.id
         /\ lastApplied' = [kind |-> "fail", isArray |-> FALSE, n |-> 0]

\* Faulty variant: there is no finally block, a failure leaves isLoading set.
ApplyFailureStaysLoading(r, msg) ==
  IF r.cancelled
    THEN UNCHANGED <<jobs, isLoading, error, jobsFrom, lastApplied,
                     lastOkLen>>
    ELSE /\ UNCHANGED <<lastOkLen, isLoading>>
         /\ error' = IF msg # "" THEN msg ELSE "Failed to load jobs"
         /\ jobs' = <<>>
         /\ jobsFrom' = r.id
         /\ lastApplied' = [kind |-> "fail", isArray |-> FALSE, n |-> 0]

\* Continuation on failure: the catch block and the finally block.
ApplyFailure(r, msg) ==
  IF r.cancelled
    THEN UNCHANGED <<jobs, isLoading, error, jobsFrom, lastApplied,
                     lastOkLen>>
    ELSE /\ UNCHANGED lastOkLen
         /\ error' = IF msg # "" THEN msg ELSE "Failed to load jobs"
         /\ jobs' = <<>>
         /\ isLoading' = FALSE
         /\ jobsFrom' = r.id
         /\ lastApplied' = [kind |-> "fail", isArray |-> FALSE, n |-> 0]

FetchReject == \E r \in inflight : \E msg \in ErrMessages :
  /\ inflight' = inflight \ {r}
  /\ ApplyFailure(r, msg)
  /\ lastOp' = Op("reject", Null)
  /\ JobsFrame
  /\ UNCHANGED <<mounted, page, sortField, sortDirection, filters, nextId,
                 lastReq>>

\* -------------------------------------------------------- AdminRunsPage
RunStatuses == {"queued", "running", "succeeded", "failed"}

\* Bodies of a successful GET /runs: an array of run records, or a JSON
\* value that is not an array.
RunLists ==
  UNION {{[i \in 1..n |-> [id |-> i, status |-> f[i]]] :
            f \in [1..n -> RunStatuses]} : n \in 0..MaxRuns}

RunsResponses ==
  {[isArray |-> TRUE, rows |-> l] : l \in RunLists}
    \cup {[isArray |-> FALSE, rows |-> <<>>]}

\* const hasRunning = runs.some((r) => r.status === "running")
hasRunning(list) == \E i \in 1..Len(list) : list[i].status = "running"

\* Faulty variant: the polling effect returns no cleanup, so an interval is never
\* cleared.
PollEffectNoCleanup(was, now, live) ==
  IF was = now THEN live
  ELSE IF now THEN Append(live, POLL_INTERVAL_MS) ELSE live

\* The polling effect, dependencies [hasRunning]: when the value changed,
\* the previous run's cleanup clears its interval (if it had armed one) and
\* the new run arms one iff hasRunning.
PollEffect(was, now, live) ==
  IF was = now THEN live
  ELSE LET cleared == IF was /\ live # <<>> THEN Tail(live) ELSE live IN
       IF now THEN Append(cleared, POLL_INTERVAL_MS) ELSE cleared

RunsOp(name, origin) == [op |-> name, origin |-> origin]

\* ---------------------------------------------------------- RunLogsModal
\* Cleanup of the modal's effect: `cancelled = true` in the closure of the
\* effect run that is being replaced or unmounted.
LogsCleanup(S, cur) ==
  {IF r.id = cur THEN [r EXCEPT !.cancelled = TRUE] ELSE r : r \in S}

\* The modal's effect body: fetchLogs() up to the await of
\* fetch(`${API_BASE_URL}/runs/${run.id}/logs`).
RunLogsEffect(run) ==
  /\ logsNextId < MaxLogFetches
  /\ logsNextId' = logsNextId + 1
  /\ logsInflight' = LogsCleanup(logsInflight, logsNextId)
                       \cup {[id |-> logsNextId + 1, run |-> run,
                               cancelled |-> FALSE]}
  /\ logsIsLoading' = TRUE
  /\ logsError' = Null
  /\ logsSinceOpen' = logsSinceOpen + 1

\* AdminRunsPage re-rendered (or not) while its selection stays as it is.
\* Each render passes a new `() => setSelectedRun(null)` as onClose, and the
\* modal's effect has dependencies [run.id, onClose]: with the modal open,
\* the effect is cleaned up and run again after every render of the page.
RenderModal(rerendered) ==
  /\ IF rerendered /\ selectedRun # 0
       THEN RunLogsEffect(selectedRun)
       ELSE UNCHANGED <<logsIsLoading, logsError, logsInflight, logsNextId,
                        logsSinceOpen>>
  /\ UNCHANGED selectedRun

\* fetchRuns() up to the await.  State setters of an unmounted component do
\* nothing.
fetchRunsStart(origin) ==
  /\ runsNextId < MaxRunFetches
  /\ runsNextId' = runsNextId + 1
  /\ runsInflight' = runsInflight \cup {[id |-> runsNextId + 1, origin |-> origin]}
  /\ IF runsMounted = "gone"
       THEN UNCHANGED <<runsIsLoading, runsError>>
       ELSE runsIsLoading' = TRUE /\ runsError' = Null

\* setIsLoading(true) and setError(null) re-render the page unless both
\* states already hold these values.
StartRerenders == runsMounted = "yes" /\ (~runsIsLoading \/ runsError # Null)

\* Mount: the initial-load effect calls fetchRuns(); the polling effect runs
\* with hasRunning false (runs is []) and arms nothing.
RunsMount ==
  /\ runsMounted = "no"
  /\ runsMounted' = "yes"
  /\ fetchRunsStart("initial")
  /\ timers' = IF hasRunning(runs) THEN Append(timers, POLL_INTERVAL_MS)
               ELSE timers
  /\ lastRunsOp' = RunsOp("mount", "initial")
  /\ RunsFrame
  /\ UNCHANGED <<runs, runsBody, logsVars>>

\* Refresh button: onClick={fetchRuns} disabled={isLoading}
RefreshClick ==
  /\ runsMounted = "yes"
  /\ ~runsIsLoading
  /\ fetchRunsStart("manual")
  /\ RenderModal(StartRerenders)
  /\ lastRunsOp' = RunsOp("refresh", "manual")
  /\ RunsFrame
  /\ UNCHANGED <<runsMounted, runs, runsBody, timers>>

\* A live interval fires: fetchRuns().
PollTick ==
  /\ timers # <<>>
  /\ fetchRunsStart("tick")
  /\ RenderModal(StartRerenders)
  /\ lastRunsOp' = RunsOp("tick", "tick")
  /\ RunsFrame
  /\ UNCHANGED <<runsMounted, runs, runsBody, timers>>

\* Continuation of `await apiGet("/runs")` on success, then the re-render
\* (setRuns receives a new array) and the effects it triggers.
RunsResolve == \E r \in runsInflight :
  /\ runsInflight' = runsInflight \ {r}
  /\ IF runsMounted = "yes"
       THEN /\ \E data \in RunsResponses :
                 /\ runs' = IF data.isArray THEN data.rows ELSE <<>>
                 /\ runsBody' = IF data.isArray THEN "array" ELSE "other"
            /\ runsIsLoading' = FALSE
            /\ timers' = PollEffect(hasRunning(runs), hasRunning(runs'), timers)
            /\ RenderModal(TRUE)
            /\ lastRunsOp' = RunsOp("resolve", r.origin)
            /\ UNCHANGED runsError
       ELSE /\ lastRunsOp' = RunsOp("dropped", r.origin)
            /\ UNCHANGED <<runs, runsBody, runsIsLoading, runsError, timers, logsVars>>
  /\ UNCHANGED <<runsMounted, runsNextId>>
  /\ RunsFrame

\* Continuation on failure: the catch block and the finally block.
RunsReject == \E r \in runsInflight :
  /\ runsInflight' = runsInflight \ {r}
  /\ IF runsMounted = "yes"
       THEN /\ \E msg \in ErrMessages :
                 runsError' = IF msg # "" THEN msg ELSE "Failed to load runs"
            /\ runsBody' = "rejected"
            /\ runs' = <<>>
            /\ runsIsLoading' = FALSE
            /\ timers' = PollEffect(hasRunning(runs), hasRunning(runs'), timers)
            /\ RenderModal(TRUE)
            /\ lastRunsOp' = RunsOp("reject", r.origin)
       ELSE /\ lastRunsOp' = RunsOp("dropped", r.origin)
            /\ UNCHANGED <<runs, runsBody, runsIsLoading, runsError, timers, logsVars>>
  /\ UNCHANGED <<runsMounted, runsNextId>>
  /\ RunsFrame

\* A table row is clicked: setSelectedRun(run); RunLogsModal mounts with
\* isLoading true and its effect runs.  The open modal's overlay covers the
\* table, so a row is clicked only while no modal is open.
SelectRun == \E i \in 1..Len(runs) :
  /\ runsMounted = "yes"
  /\ selectedRun = 0
  /\ selectedRun' = runs[i].id
  /\ RunLogsEffect(runs[i].id)
  /\ lastRunsOp' = RunsOp("select", "manual")
  /\ RunsFrame
  /\ UNCHANGED <<runsMounted, runs, runsBody, runsIsLoading, runsError, timers,
                 runsInflight, runsNextId>>

\* onClose (overlay click, Close button or Escape): setSelectedRun(null);
\* the modal unmounts and its effect's cleanup sets `cancelled`.
CloseModal ==
  /\ runsMounted = "yes"
  /\ selectedRun # 0
  /\ selectedRun' = 0
  /\ logsInflight' = LogsCleanup(logsInflight, logsNextId)
  /\ logsIsLoading' = TRUE
  /\ logsError' = Null
  /\ logsSinceOpen' = 0
  /\ lastRunsOp' = RunsOp("close", "manual")
  /\ RunsFrame
  /\ UNCHANGED <<runsMounted, runs, runsBody, runsIsLoading, runsError, timers,
                 runsInflight, runsNextId, logsNextId>>

\* Continuation of fetchLogs() on success: setLogText and, in the finally
\* block, setIsLoading(false), both only when not cancelled.
LogsResolve == \E r \in logsInflight :
  /\ logsInflight' = logsInflight \ {r}
  /\ logsIsLoading' = IF r.cancelled THEN logsIsLoading ELSE FALSE
  /\ lastRunsOp' = RunsOp("logs", "manual")
  /\ RunsFrame
  /\ UNCHANGED <<runsMounted, runs, runsBody, runsIsLoading, runsError, timers,
                 runsInflight, runsNextId, selectedRun, logsError, logsNextId,
                 logsSinceOpen>>

\* Continuation of fetchLogs() on failure (network error or !resp.ok).
LogsReject == \E r \in logsInflight : \E msg \in ErrMessages :
  /\ logsInflight' = logsInflight \ {r}
  /\ IF r.cancelled
       THEN UNCHANGED <<logsIsLoading, logsError>>
       ELSE /\ logsError' = IF msg # "" THEN msg ELSE "Failed to fetch logs"
            /\ logsIsLoading' = FALSE
  /\ lastRunsOp' = RunsOp("logsFailed", "manual")
  /\ RunsFrame
  /\ UNCHANGED <<runsMounted, runs, runsBody, runsIsLoading, runsError, timers,
                 runsInflight, runsNextId, selectedRun, logsNextId,
                 logsSinceOpen>>

\* Faulty variant: the polling effect has no cleanup at unmount.
RunsUnmountLeavesTimer ==
  /\ runsMounted = "yes"
  /\ runsMounted' = "gone"
  /\ timers' = timers
  /\ selectedRun' = 0
  /\ logsInflight' = IF selectedRun # 0
                       THEN LogsCleanup(logsInflight, logsNextId)
                       ELSE logsInflight
  /\ logsIsLoading' = TRUE
  /\ logsError' = Null
  /\ logsSinceOpen' = 0
  /\ lastRunsOp' = RunsOp("unmount", "initial")
  /\ RunsFrame
  /\ UNCHANGED <<runs, runsBody, runsIsLoading, runsError, runsInflight, runsNextId,
                 logsNextId>>

\* The route changes: the polling effect's cleanup clears its interval and
\* an open modal's effect is cleaned up.
RunsUnmount ==
  /\ runsMounted = "yes"
  /\ runsMounted' = "gone"
  /\ timers' = IF hasRunning(runs) /\ timers # <<>> THEN Tail(timers) ELSE timers
  /\ selectedRun' = 0
  /\ logsInflight' = IF selectedRun # 0
                       THEN LogsCleanup(logsInflight, logsNextId)
                       ELSE logsInflight
  /\ logsIsLoading' = TRUE
  /\ logsError' = Null
  /\ logsSinceOpen' = 0
  /\ lastRunsOp' = RunsOp("unmount", "initial")
  /\ RunsFrame
  /\ UNCHANGED <<runs, runsBody, runsIsLoading, runsError, runsInflight, runsNextId,
                 logsNextId>>

RunsInit ==
  /\ runsMounted = "no"
  /\ runs = <<>>
  /\ runsIsLoading = FALSE
  /\ runsError = Null
  /\ timers = <<>>
  /\ runsInflight = {}
  /\ runsNextId = 0
  /\ lastRunsOp = [op |-> "init", origin |-> "initial"]
  /\ runsBody = "none"
  /\ selectedRun = 0
  /\ logsIsLoading = TRUE
  /\ logsError = Null
  /\ logsInflight = {}
  /\ logsNextId = 0
  /\ logsSinceOpen = 0

RunsNext ==
  \/ RunsMount
  \/ RefreshClick
  \/ PollTick
  \/ RunsResolve
  \/ RunsReject
  \/ RunsUnmount

\* AdminRunsPage with the logs modal.
ModalNext ==
  \/ RunsNext
  \/ SelectRun
  \/ CloseModal
  \/ LogsResolve
  \/ LogsReject

\* ------------------------------------------------------------ App shell
MaxLogins == 1       \* LoginPage submissions in one behaviour
MaxLogouts == 1      \* handleLogout calls in one behaviour

\* currentUser: null, or { id, email, role }; role Null stands for undefined.
NoUser == [present |-> FALSE, role |-> Null]

User(role) == [present |-> TRUE, role |-> role]

Users == {User("user"), User("admin"), User(Null)}

\* Paths the router can be at; "/nope" stands for any path without a route.
Paths == {"/", "/login", "/jobs", "/admin/scrape", "/admin/runs",
          "/admin/users", "/nope"}

Page(name) == [kind |-> "page", name |-> name]

Redirect(to) == [kind |-> "redirect", name |-> to]

\* Faulty variant: requiredRole is not compared with the user's role.
ProtectedRouteAnyRole(user, requiredRole, child) ==
  IF ~user.present THEN Redirect("/login") ELSE Page(child)

\* function ProtectedRoute({ currentUser, requiredRole, children })
ProtectedRoute(user, requiredRole, child) ==
  IF ~user.present THEN Redirect("/login")
  ELSE IF requiredRole # Null /\ user.role # requiredRole
    THEN Redirect("/login")
    ELSE Page(child)

\* <Routes>: the element of the route that matches path.
RouteElement(path, user) ==
  CASE path = "/" -> Page("HomePage")
    [] path = "/login" -> Page("LoginPage")
    [] path = "/jobs" -> ProtectedRoute(user, Null, "JobsPage")
    [] path = "/admin/scrape" -> ProtectedRoute(user, "admin", "AdminScrapePage")
    [] path = "/admin/runs" -> ProtectedRoute(user, "admin", "AdminRunsPage")
    [] path = "/admin/users" -> ProtectedRoute(user, "admin", "AdminUsersPage")
    [] OTHER -> Redirect("/")

\* Rendering <Navigate to=... replace /> replaces the location, and the
\* routes render again: the path the router rests at.
RECURSIVE Settle(_, _)
Settle(path, user) ==
  LET e == RouteElement(path, user) IN
  IF e.kind = "redirect" THEN Settle(e.name, user) ELSE path

\* What App renders: the "Checking login" screen until authChecked, then the
\* element of the matching route.
Shown ==
  IF ~authChecked THEN Page("CheckingLogin")
  ELSE RouteElement(location, currentUser)

\* Outcomes of GET /auth/me: a rejected apiGet (transport error, non-2xx
\* status, body that is not JSON) or a parsed body.
AuthRejections == {"transport", "status", "badJson"}

AuthBodies == {"null", "noFlag", "notAuthenticated", "user", "admin", "noRole"}

AuthOutcomes == AuthRejections \cup AuthBodies

\* The .then handler: setCurrentUser({id, email, role}) when
\* data.authenticated is truthy, else setCurrentUser(null); reading
\* data.authenticated of a null body throws, which .catch handles like a
\* rejection: setCurrentUser(null).
UserFromAuth(outcome) ==
  CASE outcome = "user" -> User("user")
    [] outcome = "admin" -> User("admin")
    [] outcome = "noRole" -> User(Null)
    [] OTHER -> NoUser

\* Faulty variant: setAuthChecked(true) sits in .then instead of .finally.
AuthCheckedAfterThenOnly(outcome) == outcome \in AuthBodies \ {"null"}

\* .finally(() => setAuthChecked(true))
AuthCheckedAfter(outcome) == TRUE

AppOp(name, arg) == [op |-> name, arg |-> arg]

\* First render of App: the auth effect issues GET /auth/me.
AppMount ==
  /\ authState = "idle"
  /\ authState' = "pending"
  /\ lastAppOp' = AppOp("mount", Null)
  /\ AppFrame
  /\ UNCHANGED <<currentUser, authChecked, location, loginPending,
                 logoutPending>>

\* The promise chain of the auth effect settles; once authChecked is true the
\* routes render and redirect.
AuthSettle == \E outcome \in AuthOutcomes :
  /\ authState = "pending"
  /\ authState' = "done"
  /\ currentUser' = UserFromAuth(outcome)
  /\ authChecked' = AuthCheckedAfter(outcome)
  /\ location' = IF authChecked' THEN Settle(location, currentUser')
                 ELSE location
  /\ lastAppOp' = AppOp("auth", outcome)
  /\ AppFrame
  /\ UNCHANGED <<loginPending, logoutPending>>

\* A <Link> is followed or the history is traversed to path.
GoTo == \E path \in Paths :
  /\ authChecked
  /\ location' = Settle(path, currentUser)
  /\ lastAppOp' = AppOp("goto", path)
  /\ AppFrame
  /\ UNCHANGED <<currentUser, authChecked, authState, loginPending,
                 logoutPending>>

\* Faulty variant: the login form is usable during the auth check.
LoginSubmitBeforeAuthCheck ==
  /\ location = "/login"
  /\ loginPending < MaxLogins
  /\ loginPending' = loginPending + 1
  /\ lastAppOp' = AppOp("submit", Null)
  /\ AppFrame
  /\ UNCHANGED <<currentUser, authChecked, authState, location, logoutPending>>

\* LoginPage handleSubmit up to `await apiPost(path, ...)`.
LoginSubmit ==
  /\ authChecked
  /\ location = "/login"
  /\ loginPending < MaxLogins
  /\ loginPending' = loginPending + 1
  /\ lastAppOp' = AppOp("submit", Null)
  /\ AppFrame
  /\ UNCHANGED <<currentUser, authChecked, authState, location, logoutPending>>

\* handleSubmit after the await: onLogin(user), then navigate(...) by role;
\* for a null body `user.role` throws after onLogin(null) and nothing is
\* navigated.
LoginResolve == \E user \in Users \cup {NoUser} :
  /\ loginPending > 0
  /\ loginPending' = loginPending - 1
  /\ currentUser' = user
  /\ location' =
       IF ~user.present THEN Settle(location, user)
       ELSE Settle(IF user.role = "admin" THEN "/admin/scrape" ELSE "/jobs",
                   user)
  /\ lastAppOp' = AppOp("login", IF user.present THEN "ok" ELSE "null")
  /\ AppFrame
  /\ UNCHANGED <<authChecked, authState, logoutPending>>

\* handleSubmit's catch: only LoginPage's own error state changes.
LoginReject ==
  /\ loginPending > 0
  /\ loginPending' = loginPending - 1
  /\ lastAppOp' = AppOp("loginFailed", Null)
  /\ AppFrame
  /\ UNCHANGED <<currentUser, authChecked, authState, location, logoutPending>>

\* "Log out" button (rendered when currentUser is set): handleLogout up to
\* `await apiPost("/auth/logout", {})`.
LogoutClick ==
  /\ authChecked
  /\ currentUser.present
  /\ logoutPending < MaxLogouts
  /\ logoutPending' = logoutPending + 1
  /\ lastAppOp' = AppOp("logout", Null)
  /\ AppFrame
  /\ UNCHANGED <<currentUser, authChecked, authState, location, loginPending>>

\* Outcomes of POST /auth/logout.
LogoutOutcomes == {"ok", "failed"}

\* handleLogout's finally block: setCurrentUser(null).
UserAfterLogout(user, outcome) == NoUser

\* handleLogout after the await, success or failure.
LogoutSettle == \E outcome \in LogoutOutcomes :
  /\ logoutPending > 0
  /\ logoutPending' = logoutPending - 1
  /\ currentUser' = UserAfterLogout(currentUser, outcome)
  /\ location' = Settle(location, currentUser')
  /\ lastAppOp' = AppOp("loggedOut", outcome)
  /\ AppFrame
  /\ UNCHANGED <<authChecked, authState, loginPending>>

\* The page is opened at the URL path.
AppInitAt(path) ==
  /\ currentUser = NoUser
  /\ authChecked = FALSE
  /\ authState = "idle"
  /\ location = path
  /\ loginPending = 0
  /\ logoutPending = 0
  /\ lastAppOp = [op |-> "init", arg |-> Null]

AppNext ==
  \/ AppMount
  \/ AuthSettle
  \/ GoTo
  \/ LoginSubmit
  \/ LoginResolve
  \/ LoginReject
  \/ LogoutClick
  \/ LogoutSettle

\* ------------------------------------------------------- HTTP requests
MaxSent == 3         \* fetch() calls recorded in one behaviour
MaxVendorRows == 3   \* longest array returned by GET /vendors

\* JavaScript object spread { ...a, ...b }: the keys of b win.
Spread(a, b) == b @@ a

\* The `options` argument of apiGet / apiPost; no call site passes one.
NoOptions == <<>>

\* `options.headers || {}`
OptionHeaders(options) ==
  IF "headers" \in DOMAIN options THEN options["headers"] ELSE <<>>

\* The init object apiGet passes to fetch().
apiGetInit(options) ==
  Spread(("headers" :> Spread("Content-Type" :> "application/json",
                              OptionHeaders(options)))
           @@ ("credentials" :> "include"),
         options)

\* The init object apiPost passes to fetch().
apiPostInit(options) ==
  Spread(("method" :> "POST")
           @@ ("headers" :> Spread("Content-Type" :> "application/json",
                                   OptionHeaders(options)))
           @@ ("credentials" :> "include")
           @@ ("body" :> "json"),
         options)

\* The init object of the apiGet defined in JobModal.jsx: no credentials.
apiGetInitJobModal(options) ==
  Spread("headers" :> Spread("Content-Type" :> "application/json",
                             OptionHeaders(options)),
         options)

\* fetchLogs calls fetch(url) without an init object.
fetchLogsInit == <<>>

\* The request fetch(url, init) makes: method GET, credentials mode
\* "same-origin" and no headers unless init says otherwise.
Request(via, path, init) ==
  [via |-> via,
   path |-> path,
   method |-> IF "method" \in DOMAIN init THEN init["method"] ELSE "GET",
   credentials |-> IF "credentials" \in DOMAIN init THEN init["credentials"]
                   ELSE "same-origin",
   headers |-> IF "headers" \in DOMAIN init THEN init["headers"] ELSE <<>>]

\* Cookies travel with a request in mode "include", and in mode
\* "same-origin" only when the API has the page's origin.
CookiesCarried(r) ==
  \/ r.credentials = "include"
  \/ r.credentials = "same-origin" /\ sameOrigin

GetPaths == {"/health", "/auth/me", "/jobs", "/vendors", "/runs", "/admin/users"}

PostPaths == {"/runs", "/auth/login", "/auth/register", "/auth/logout"}

CsrfValues == {Null, "t1", "t2"}

\* fetch(url, init) is called.
Send(r) ==
  /\ Len(sent) < MaxSent
  /\ sent' = Append(sent, r)

\* A component calls apiGet(path).
CallApiGet == \E path \in GetPaths :
  /\ Send(Request("apiGet", path, apiGetInit(NoOptions)))
  /\ UNCHANGED <<csrfCookie, sameOrigin>>
  /\ HttpFrame

\* A component calls apiPost(path, body).
CallApiPost == \E path \in PostPaths :
  /\ Send(Request("apiPost", path, apiPostInit(NoOptions)))
  /\ UNCHANGED <<csrfCookie, sameOrigin>>
  /\ HttpFrame

\* A caller of the apiGet that JobModal.jsx defines.
CallApiGetJobModal == \E path \in GetPaths :
  /\ Send(Request("apiGetJobModal", path, apiGetInitJobModal(NoOptions)))
  /\ UNCHANGED <<csrfCookie, sameOrigin>>
  /\ HttpFrame

\* RunLogsModal's fetchLogs.
CallFetchLogs ==
  /\ Send(Request("fetchLogs", "/runs/1/logs", fetchLogsInit))
  /\ UNCHANGED <<csrfCookie, sameOrigin>>
  /\ HttpFrame

\* A response sets, replaces or expires the csrf_token cookie.
SetCookie == \E v \in CsrfValues :
  /\ v # csrfCookie
  /\ csrfCookie' = v
  /\ UNCHANGED <<sameOrigin, sent>>
  /\ HttpFrame

HttpInitWith(same) ==
  /\ csrfCookie = Null
  /\ sameOrigin = same
  /\ sent = <<>>

HttpNext ==
  \/ CallApiGet
  \/ CallApiPost
  \/ CallApiGetJobModal
  \/ CallFetchLogs
  \/ SetCookie

\* ------------------------------------------------- FiltersBar vendor list
\* Values of the Vendor field in a row of GET /vendors; Null: no such field.
VendorValues == {Null, "", "Acme", "Beta"}

VendorRows == [Vendor : VendorValues]

\* Bodies of a successful GET /vendors: an array of rows, or not an array.
VendorBodies ==
  {[isArray |-> TRUE, rows |-> l] :
      l \in UNION {[1..n -> VendorRows] : n \in 0..MaxVendorRows}}
    \cup {[isArray |-> FALSE, rows |-> <<>>]}

\* data.map((row) => row.Vendor).filter(Boolean)
RECURSIVE MapFilterVendor(_)
MapFilterVendor(rows) ==
  IF rows = <<>> THEN <<>>
  ELSE LET v == Head(rows).Vendor IN
       IF Truthy(v) THEN <<v>> \o MapFilterVendor(Tail(rows))
       ELSE MapFilterVendor(Tail(rows))

\* a.localeCompare(b) on the names used: negative, zero or positive.
LocaleRank(name) == IF name = "Acme" THEN 1 ELSE 2

localeCompare(a, b) == LocaleRank(a) - LocaleRank(b)

\* names.sort((a, b) => a.localeCompare(b)): a stable sort by a consistent
\* comparator, here by insertion.
RECURSIVE InsertName(_, _)
InsertName(sorted, name) ==
  IF sorted = <<>> THEN <<name>>
  ELSE IF localeCompare(name, Head(sorted)) < 0 THEN <<name>> \o sorted
  ELSE <<Head(sorted)>> \o InsertName(Tail(sorted), name)

RECURSIVE SortNames(_)
SortNames(names) ==
  IF names = <<>> THEN <<>>
  ELSE InsertName(SortNames(SubSeq(names, 1, Len(names) - 1)),
                  names[Len(names)])

\* The list fetchVendors stores for a response body.
VendorNames(data) ==
  SortNames(IF data.isArray THEN MapFilterVendor(data.rows) ELSE <<>>)

NoBody == [isArray |-> FALSE, rows |-> <<>>]

\* FiltersBar mounts: fetchVendors() up to the await.
VendorsMount ==
  /\ vendorsState = "idle"
  /\ vendorsState' = "pending"
  /\ isLoadingVendors' = TRUE
  /\ vendorsError' = Null
  /\ VendorsFrame
  /\ UNCHANGED <<vendors, vendorsData>>

\* FiltersBar unmounts while the request is pending: `cancelled = true`.
VendorsUnmount ==
  /\ vendorsState = "pending"
  /\ vendorsState' = "cancelled"
  /\ VendorsFrame
  /\ UNCHANGED <<vendors, isLoadingVendors, vendorsError, vendorsData>>

\* fetchVendors after the await, on success.  A cancelled run returns from
\* the try block and its finally block does nothing.
VendorsResolve == \E data \in VendorBodies :
  /\ vendorsState \in {"pending", "cancelled"}
  /\ vendorsData' = data
  /\ IF vendorsState = "pending"
       THEN /\ vendorsState' = "done"
            /\ vendors' = VendorNames(data)
            /\ isLoadingVendors' = FALSE
       ELSE /\ vendorsState' = "dropped"
            /\ UNCHANGED <<vendors, isLoadingVendors>>
  /\ UNCHANGED vendorsError
  /\ VendorsFrame

\* fetchVendors' catch and finally blocks.
VendorsReject == \E msg \in ErrMessages :
  /\ vendorsState \in {"pending", "cancelled"}
  /\ IF vendorsState = "pending"
       THEN /\ vendorsState' = "failed"
            /\ vendorsError' = IF msg # "" THEN msg ELSE "Failed to load vendors"
            /\ isLoadingVendors' = FALSE
       ELSE /\ vendorsState' = "dropped"
            /\ UNCHANGED <<vendorsError, isLoadingVendors>>
  /\ VendorsFrame
  /\ UNCHANGED <<vendors, vendorsData>>

VendorsInit ==
  /\ vendors = <<>>
  /\ isLoadingVendors = FALSE
  /\ vendorsError = Null
  /\ vendorsState = "idle"
  /\ vendorsData = NoBody

VendorsNext ==
  \/ VendorsMount
  \/ VendorsUnmount
  \/ VendorsResolve
  \/ VendorsReject

\* --------------------------------------------------------- AdminUsersPage
\* Bodies of a successful GET /admin/users: an array of user records, or a
\* JSON value that is not an array.
MaxUsers == 2        \* longest array returned by GET /admin/users

UserLists == UNION {[1..n -> [role : {"user", "admin"}]] : n \in 0..MaxUsers}

UsersResponses ==
  {[isArray |-> TRUE, rows |-> l] : l \in UserLists}
    \cup {[isArray |-> FALSE, rows |-> <<>>]}

\* Mount: the effect calls loadUsers(), which runs up to the await.
UsersMount ==
  /\ usersState = "idle"
  /\ usersState' = "pending"
  /\ usersIsLoading' = TRUE
  /\ usersError' = Null
  /\ UsersFrame
  /\ UNCHANGED <<users, usersBody>>

\* The page unmounts while the request is pending: `cancelled = true`.
UsersUnmount ==
  /\ usersState = "pending"
  /\ usersState' = "cancelled"
  /\ UsersFrame
  /\ UNCHANGED <<users, usersIsLoading, usersError, usersBody>>

\* loadUsers after the await, on success.
UsersResolve == \E data \in UsersResponses :
  /\ usersState \in {"pending", "cancelled"}
  /\ IF usersState = "pending"
       THEN /\ usersState' = "done"
            /\ users' = IF data.isArray THEN data.rows ELSE <<>>
            /\ usersBody' = IF data.isArray THEN "array" ELSE "other"
            /\ usersIsLoading' = FALSE
       ELSE /\ usersState' = "dropped"
            /\ UNCHANGED <<users, usersIsLoading, usersBody>>
  /\ UNCHANGED usersError
  /\ UsersFrame

\* loadUsers' catch and finally blocks.
UsersReject == \E msg \in ErrMessages :
  /\ usersState \in {"pending", "cancelled"}
  /\ IF usersState = "pending"
       THEN /\ usersState' = "failed"
            /\ usersError' = IF msg # "" THEN msg ELSE "Failed to load users"
            /\ usersIsLoading' = FALSE
       ELSE /\ usersState' = "dropped"
            /\ UNCHANGED <<usersError, usersIsLoading>>
  /\ UsersFrame
  /\ UNCHANGED <<users, usersBody>>

UsersInit ==
  /\ users = <<>>
  /\ usersIsLoading = FALSE
  /\ usersError = Null
  /\ usersState = "idle"
  /\ usersBody = "none"

\* FiltersBar before the first keystroke.
SearchInit ==
  /\ searchInput = ""
  /\ searchTimeoutRef = 0
  /\ searchTimers = {}
  /\ clock = 0
  /\ lastKeyAt = -1
  /\ keystrokes = 0

\* --------------------------------------------- FiltersBar search debounce
MaxKeystrokes == 3   \* keystrokes in the search box in one behaviour
MaxClock == 900      \* the time up to which the clock is followed, in ms
ClockStep == 100     \* granularity of the clock, in ms

DEBOUNCE_MS == 300

\* Values of the search box after a keystroke.
TypedValues == {"", "d", "de"}

SearchFrame ==
  UNCHANGED <<sortHist, runsVars, appVars, httpVars, vendorVars, usersVars>>

\* Faulty variant: the pending timer is not cleared.
ClearTimeoutNothing(pending, ref) == pending

\* if (searchTimeoutRef.current) clearTimeout(searchTimeoutRef.current)
ClearTimeout(pending, ref) == {t \in pending : t.id # ref}

\* A keystroke changes the search box: handleSearchChange.
handleSearchChange == \E value \in TypedValues :
  /\ mounted
  /\ keystrokes < MaxKeystrokes
  /\ value # searchInput
  /\ keystrokes' = keystrokes + 1
  /\ searchInput' = value
  /\ searchTimers' = ClearTimeout(searchTimers, searchTimeoutRef)
                       \cup {[id |-> keystrokes + 1, value |-> value,
                              due |-> clock + DEBOUNCE_MS]}
  /\ searchTimeoutRef' = keystrokes + 1
  /\ lastKeyAt' = clock
  /\ SearchFrame
  /\ UNCHANGED <<jobsVars, clock>>

\* Time passes.
ClockTick ==
  /\ clock + ClockStep <= MaxClock
  /\ clock' = clock + ClockStep
  /\ SearchFrame
  /\ UNCHANGED <<jobsVars, searchInput, searchTimeoutRef, searchTimers,
                 lastKeyAt, keystrokes>>

\* A timer that is due runs its callback: onChange({ searchTerm: value ||
\* null }), which is JobsPage's handleFiltersChange; when the searchTerm prop
\* changes, the sync effect sets searchInput to `searchTerm ?? ""`.
SearchTimerFires == \E t \in searchTimers :
  /\ mounted
  /\ clock >= t.due
  /\ searchTimers' = searchTimers \ {t}
  /\ page' = 0
  /\ filters' = MergeFilters(filters, "searchTerm", OrNull(t.value))
  /\ Rerender(0, filters')
  /\ lastOp' = Op("search", OrNull(t.value))
  /\ searchInput' =
       IF filters'.searchTerm = filters.searchTerm THEN searchInput
       ELSE IF filters'.searchTerm = Null THEN "" ELSE filters'.searchTerm
  /\ SearchFrame
  /\ UNCHANGED <<mounted, jobs, sortField, sortDirection, jobsFrom,
                 lastApplied, lastOkLen, searchTimeoutRef, clock, lastKeyAt,
                 keystrokes>>

DebounceNext ==
  \/ Mount
  \/ handleSearchChange
  \/ ClockTick
  \/ SearchTimerFires
  \/ FetchResolve

\* The shell as it is while another component is examined.
ShellInit ==
  /\ AppInitAt("/")
  /\ HttpInitWith(FALSE)
  /\ VendorsInit
  /\ UsersInit
  /\ SearchInit

\* ------------------------------------------------ sorting the loaded page
\* String.prototype.toLowerCase on the titles, locations and vendors used.
ToLowerCase(str) ==
  CASE str = "Analyst" -> "analyst"
    [] str = "Austin" -> "austin"
    [] str = "Acme" -> "acme"
    [] OTHER -> str

\* Position of a lower-cased string in the order JavaScript's < gives them.
StringRank(str) ==
  CASE str = "" -> 0
    [] str = "acme" -> 1
    [] str = "analyst" -> 2
    [] str = "austin" -> 3
    [] str = "boston" -> 4
    [] str = "clerk" -> 5
    [] str = "texas" -> 6

\* JavaScript `v || ""`.
OrEmpty(v) == IF Truthy(v) THEN v ELSE ""

\* Faulty variant: compareStrings ignores sortDirection.
compareStringsAscOnly(aVal, bVal, dir) ==
  LET sa == StringRank(ToLowerCase(OrEmpty(aVal)))
      sb == StringRank(ToLowerCase(OrEmpty(bVal)))
  IN IF sa < sb THEN -1 ELSE IF sa > sb THEN 1 ELSE 0

compareStrings(aVal, bVal, dir) ==
  LET sa == StringRank(ToLowerCase(OrEmpty(aVal)))
      sb == StringRank(ToLowerCase(OrEmpty(bVal)))
  IN IF sa < sb THEN (IF dir = "asc" THEN -1 ELSE 1)
     ELSE IF sa > sb THEN (IF dir = "asc" THEN 1 ELSE -1)
     ELSE 0

\* new Date(str).getTime(), in days since the epoch: NaN for a string that
\* is not a date.
GetTime(str) ==
  CASE str = "2024-01-01" -> [nan |-> FALSE, t |-> 19723]
    [] str = "2024-01-02" -> [nan |-> FALSE, t |-> 19724]
    [] OTHER -> [nan |-> TRUE, t |-> 0]

\* ta / tb of the date comparator: 0 when "Post Date" is missing.
DateKey(job) ==
  IF Truthy(job.PostDate) THEN GetTime(job.PostDate)
  ELSE [nan |-> FALSE, t |-> 0]

\* JavaScript < on numbers: false when either side is NaN.
NumLess(x, y) == ~x.nan /\ ~y.nan /\ x.t < y.t

LocationOf(job) ==
  IF Truthy(job.RawLocation) THEN job.RawLocation
  ELSE IF Truthy(job.City) THEN job.City
  ELSE IF Truthy(job.State) THEN job.State
  ELSE ""

\* The comparator sortedJobs passes to out.sort for each sortField.
Compare(a, b, field, dir) ==
  CASE field = "title" -> compareStrings(a.PositionTitle, b.PositionTitle, dir)
    [] field = "date" ->
         IF NumLess(DateKey(a), DateKey(b)) THEN (IF dir = "asc" THEN -1 ELSE 1)
         ELSE IF NumLess(DateKey(b), DateKey(a))
                THEN (IF dir = "asc" THEN 1 ELSE -1)
         ELSE 0
    [] field = "location" -> compareStrings(LocationOf(a), LocationOf(b), dir)
    [] field = "company" -> compareStrings(a.Vendor, b.Vendor, dir)
    [] OTHER -> 0

\* Array.prototype.sort is the engine's.  For a consistent comparator every
\* engine returns the stable sorted order; for an inconsistent one the order
\* is implementation-defined, so both algorithms browsers use for arrays of
\* this size are modelled: binary insertion after run detection (TimSort on
\* fewer than 64 elements) and bottom-up merge sort.
Engines == {"binaryInsertion", "merge"}

Reverse(a) == [i \in 1..Len(a) |-> a[Len(a) + 1 - i]]

\* Length of the initial run: strictly descending or non-descending.
RECURSIVE RunEnd(_, _, _, _, _)
RunEnd(a, i, desc, field, dir) ==
  IF i > Len(a) THEN Len(a)
  ELSE LET order == Compare(a[i], a[i - 1], field, dir) IN
       IF (desc /\ order >= 0) \/ (~desc /\ order < 0) THEN i - 1
       ELSE RunEnd(a, i + 1, desc, field, dir)

\* Insertion point of pivot in a[1..right], searched by bisection.
RECURSIVE BinarySearch(_, _, _, _, _, _)
BinarySearch(a, pivot, left, right, field, dir) ==
  IF left >= right THEN left
  ELSE LET mid == left + ((right - left) \div 2) IN
       IF Compare(pivot, a[mid + 1], field, dir) < 0
         THEN BinarySearch(a, pivot, left, mid, field, dir)
         ELSE BinarySearch(a, pivot, mid + 1, right, field, dir)

\* a with the element at index from moved to index to (to <= from).
MoveTo(a, from, to) ==
  [i \in 1..Len(a) |->
     IF i < to \/ i > from THEN a[i]
     ELSE IF i = to THEN a[from] ELSE a[i - 1]]

RECURSIVE InsertFrom(_, _, _, _)
InsertFrom(a, start, field, dir) ==
  IF start > Len(a) THEN a
  ELSE InsertFrom(
         MoveTo(a, start,
                BinarySearch(a, a[start], 0, start - 1, field, dir) + 1),
         start + 1, field, dir)

BinaryInsertionSort(a, field, dir) ==
  IF Len(a) < 2 THEN a
  ELSE LET desc == Compare(a[2], a[1], field, dir) < 0
           run == RunEnd(a, 3, desc, field, dir)
           made == IF desc
                     THEN Reverse(SubSeq(a, 1, run)) \o SubSeq(a, run + 1, Len(a))
                     ELSE a
       IN InsertFrom(made, run + 1, field, dir)

\* Merge of two adjacent runs: the right element is taken only when it
\* compares strictly below the left one.
RECURSIVE Merge(_, _, _, _)
Merge(L, R, field, dir) ==
  IF R = <<>> THEN L
  ELSE IF L = <<>> THEN R
  ELSE IF Compare(R[1], L[1], field, dir) < 0
    THEN <<R[1]>> \o Merge(L, Tail(R), field, dir)
    ELSE <<L[1]>> \o Merge(Tail(L), R, field, dir)

RECURSIVE MergePass(_, _, _, _)
MergePass(a, width, field, dir) ==
  IF Len(a) <= width THEN a
  ELSE LET hi == IF 2 * width < Len(a) THEN 2 * width ELSE Len(a) IN
       Merge(SubSeq(a, 1, width), SubSeq(a, width + 1, hi), field, dir)
         \o MergePass(SubSeq(a, hi + 1, Len(a)), width, field, dir)

RECURSIVE MergeSort(_, _, _, _)
MergeSort(a, width, field, dir) ==
  IF width >= Len(a) THEN a
  ELSE MergeSort(MergePass(a, width, field, dir), 2 * width, field, dir)

ArraySort(a, field, dir, eng) ==
  IF eng = "merge" THEN MergeSort(a, 1, field, dir)
  ELSE BinaryInsertionSort(a, field, dir)

\* sortedJobs: a sorted copy of jobs (jobs itself is not reordered).
SortedJobs(rows, field, dir, eng) ==
  IF field \in SortFields THEN ArraySort(rows, field, dir, eng) ELSE rows

sortedJobs == SortedJobs(jobs, sortField, sortDirection, engine)

\* Job records of the sorted pages: tied keys ("Analyst" / "analyst"),
\* missing fields, and a "Post Date" that does not parse.
SortRecs ==
  {[PostingID |-> 1, PositionTitle |-> "Analyst", PostDate |-> "n/a",
    RawLocation |-> Null, City |-> "Austin", State |-> "texas",
    Vendor |-> "Acme"],
   [PostingID |-> 2, PositionTitle |-> "analyst", PostDate |-> "2024-01-01",
    RawLocation |-> "boston", City |-> Null, State |-> Null,
    Vendor |-> Null],
   [PostingID |-> 3, PositionTitle |-> "clerk", PostDate |-> "2024-01-02",
    RawLocation |-> Null, City |-> Null, State |-> "texas",
    Vendor |-> "acme"],
   [PostingID |-> 4, PositionTitle |-> Null, PostDate |-> Null,
    RawLocation |-> Null, City |-> Null, State |-> Null,
    Vendor |-> "Acme"]}

SortPages == UNION {[1..n -> SortRecs] : n \in 0..MaxRows}

\* A column header is clicked on a loaded page.
HeaderClick == \E f \in SortFields :
  /\ toggles < MaxToggles \/ f # sortField
  /\ handleSort(f)
  /\ toggles' = IF f = sortField THEN toggles + 1 ELSE 0
  /\ baseShown' =
       IF f = sortField THEN baseShown
       ELSE SortedJobs(jobs, sortField', sortDirection', engine)
  /\ UNCHANGED <<engine, runsVars, shellVars>>

\* JobsPage after its first fetch returned a page of SortRecs.
SortInit ==
  /\ mounted = TRUE
  /\ jobs \in SortPages
  /\ page = 0
  /\ isLoading = FALSE
  /\ error = Null
  /\ sortField = "date"
  /\ sortDirection = "desc"
  /\ filters = [vendor |-> Null, searchTerm |-> Null, since |-> Null]
  /\ inflight = {}
  /\ nextId = 1
  /\ lastReq = {NewRequest(1, 0, filters)}
  /\ jobsFrom = 1
  /\ lastApplied = [kind |-> "ok", isArray |-> TRUE, n |-> Len(jobs)]
  /\ lastOkLen = Len(jobs)
  /\ lastOp = [op |-> "resolve", arg |-> Null, tick |-> 0]
  /\ engine \in Engines
  /\ toggles = 0
  /\ baseShown = SortedJobs(jobs, "date", "desc", engine)
  /\ RunsInit
  /\ ShellInit

SortNext == HeaderClick

SortSpec == SortInit /\ [][SortNext]_vars

\* ---------------------------------------------------------------- render
\* "Showing {jobs.length} jobs - page {page + 1}"
HeaderText == [count |-> Len(jobs), pageShown |-> page + 1]

\* The table is rendered when there are jobs, or while loading without error.
TableVisible == Len(jobs) > 0 \/ (isLoading /\ error = Null)

\* <tbody>: skeleton rows only while loading with no jobs, else the job rows.
TableBody ==
  IF isLoading /\ Len(jobs) = 0
    THEN [kind |-> "skeleton", n |-> SKELETON_ROWS]
    ELSE [kind |-> "rows", n |-> Len(jobs)]

JobsInit ==
  /\ mounted = FALSE
  /\ jobs = <<>>
  /\ page = 0
  /\ isLoading = FALSE
  /\ error = Null
  /\ sortField = "date"
  /\ sortDirection = "desc"
  /\ filters = [vendor |-> Null, searchTerm |-> Null, since |-> Null]
  /\ inflight = {}
  /\ nextId = 0
  /\ lastReq = {}
  /\ jobsFrom = 0
  /\ lastApplied = [kind |-> "none", isArray |-> FALSE, n |-> 0]
  /\ lastOkLen = -1
  /\ lastOp = [op |-> "init", arg |-> Null, tick |-> 0]

JobsNext ==
  \/ Mount
  \/ handleVendorChange
  \/ searchTimeout
  \/ setSinceDate
  \/ PrevClick
  \/ NextClick
  \/ SortClick
  \/ FetchResolve
  \/ FetchReject

Init ==
  /\ JobsInit
  /\ engine = "binaryInsertion"
  /\ toggles = 0
  /\ baseShown = <<>>
  /\ RunsInit
  /\ ShellInit

Next == JobsNext

Spec == Init /\ [][Next]_vars

\* The triggers of a fetch cycle and its completions.
CycleNext ==
  \/ Mount
  \/ handleVendorChange
  \/ PrevClick
  \/ NextClick
  \/ FetchResolve
  \/ FetchReject

\* JobsPage when every issued request eventually completes: the network
\* settles each pending apiGet promise.
LiveSpec == Init /\ [][CycleNext]_vars /\ WF_vars(FetchResolve \/ FetchReject)

RunsSpec == Init /\ [][RunsNext]_vars

ModalSpec == Init /\ [][ModalNext]_vars

\* The App shell opened at any URL.
AppSpecInit ==
  /\ JobsInit
  /\ engine = "binaryInsertion"
  /\ toggles = 0
  /\ baseShown = <<>>
  /\ RunsInit
  /\ \E path \in Paths : AppInitAt(path)
  /\ HttpInitWith(FALSE)
  /\ VendorsInit
  /\ UsersInit
  /\ SearchInit

AppSpec == AppSpecInit /\ [][AppNext]_vars

\* The HTTP helpers, with the API on the page's origin or on another one.
HttpSpecInit ==
  /\ JobsInit
  /\ engine = "binaryInsertion"
  /\ toggles = 0
  /\ baseShown = <<>>
  /\ RunsInit
  /\ AppInitAt("/")
  /\ \E same \in BOOLEAN : HttpInitWith(same)
  /\ VendorsInit
  /\ UsersInit
  /\ SearchInit

HttpSpec == HttpSpecInit /\ [][HttpNext]_vars

VendorsSpec == Init /\ [][VendorsNext]_vars

\* The pages that load a list, each on its route, after an admin signed in.
GatedPaths == {"/jobs", "/admin/runs", "/admin/users"}

JobsRouteShown == location = "/jobs" /\ Mount

FiltersBarShown == location = "/jobs" /\ VendorsMount

RunsRouteShown == location = "/admin/runs" /\ RunsMount

UsersRouteShown == location = "/admin/users" /\ UsersMount

PayloadInit ==
  /\ JobsInit
  /\ engine = "binaryInsertion"
  /\ toggles = 0
  /\ baseShown = <<>>
  /\ RunsInit
  /\ currentUser = User("admin")
  /\ authChecked = TRUE
  /\ authState = "done"
  /\ location \in GatedPaths
  /\ loginPending = 0
  /\ logoutPending = 0
  /\ lastAppOp = [op |-> "auth", arg |-> "admin"]
  /\ HttpInitWith(FALSE)
  /\ VendorsInit
  /\ UsersInit
  /\ SearchInit

PayloadNext ==
  \/ JobsRouteShown
  \/ FetchResolve
  \/ FiltersBarShown
  \/ VendorsResolve
  \/ RunsRouteShown
  \/ RunsResolve
  \/ UsersRouteShown
  \/ UsersResolve

PayloadSpec == PayloadInit /\ [][PayloadNext]_vars

DebounceSpec == Init /\ [][DebounceNext]_vars

\* ------------------------------------------------------------ properties
\* The step just taken ran the handler / continuation `name`.
IsStep(name) == lastOp' # lastOp /\ lastOp'.op = name

Ids(S) == {r.id : r \in S}

\* A request of the pre-state settles in this step.
Settles(r) == r \in inflight /\ r.id \notin Ids(inflight')

\* No fetch that has not been superseded is outstanding.
NoCurrentFetch == \A r \in inflight : r.id # nextId

\* C1: the completion (success or failure) of a fetch that is not the most
\* recently issued one never changes jobs, error or isLoading; a completion
\* that changes any of them is the most recently issued fetch's.
C1_StaleSuppressed ==
  [][\A r \in inflight :
      Settles(r) =>
        /\ (r.id < nextId => UNCHANGED <<jobs, error, isLoading>>)
        /\ (<<jobs, error, isLoading>>' # <<jobs, error, isLoading>>
              => r.id = nextId)]_vars

\* C1 witness: a superseded fetch has just completed while the newer fetch is
\* still outstanding, after an earlier page had been applied.
C1_Witness ==
  /\ lastOp.op \in {"resolve", "reject"}
  /\ isLoading
  /\ nextId >= 2
  /\ jobsFrom >= 1
  /\ \E r \in inflight : r.id = nextId

\* C2: every call of handleFiltersChange leaves page = 0; the GET /jobs
\* request that the call issues encodes offset=0, and one is issued whenever
\* the call changed the page or a filter value.
C2_FilterChangeResetsPage ==
  [][IsStep("filters") =>
      /\ page' = 0
      /\ (page # 0 \/ filters' # filters) => nextId' = nextId + 1
      /\ nextId' # nextId =>
           \A r \in lastReq' : r.id = nextId' /\ r.params["offset"] = 0]_vars

\* C2 witness: a filter change made on page 1 while that page's fetch was
\* still loading: the page-1 request is superseded, page is 0 and the new
\* request has offset 0.
C2_Witness ==
  /\ lastOp.op = "filters"
  /\ page = 0
  /\ \E r \in lastReq : r.id = nextId /\ r.params["offset"] = 0
  /\ \E q \in inflight : q.cancelled /\ q.params["offset"] = PAGE_SIZE

\* C3 (as stated): canGoNext holds iff the last successful fetch returned
\* exactly PAGE_SIZE records and no fetch is in flight.
C3_Original == canGoNext <=> (lastOkLen = PAGE_SIZE /\ NoCurrentFetch)

\* C3 (amended): canGoNext holds iff the most recently applied completion was
\* a success with exactly PAGE_SIZE records and no non-superseded fetch is in
\* flight; in particular it is false after a short page and after a failure.
C3_CanGoNext ==
  canGoNext <=>
    /\ lastApplied.kind = "ok"
    /\ lastApplied.isArray
    /\ lastApplied.n = PAGE_SIZE
    /\ NoCurrentFetch

\* C3 witness: canGoNext holds after a full page while a superseded request
\* is still pending on the network.
C3_Witness == canGoNext /\ inflight # {} /\ lastApplied.n = PAGE_SIZE

\* C4: a request issued in a step carries limit=50, offset = 50 * the page of
\* the render that issues it, and vendor / q / since exactly for the filters
\* that are non-empty then, with their values; Next from page 0 after a full
\* page moves to page 1 and issues offset=50.
ExpectedKeys(flt) ==
  {"limit", "offset"}
    \cup (IF flt.vendor \in {Null, ""} THEN {} ELSE {"vendor"})
    \cup (IF flt.searchTerm \in {Null, ""} THEN {} ELSE {"q"})
    \cup (IF flt.since \in {Null, ""} THEN {} ELSE {"since"})

C4_RequestEncoding ==
  [][/\ nextId' # nextId =>
          \A r \in lastReq' :
            /\ r.id = nextId'
            /\ r \in inflight'
            /\ DOMAIN r.params = ExpectedKeys(filters')
            /\ r.params["limit"] = 50
            /\ r.params["offset"] = 50 * page'
            /\ "vendor" \in DOMAIN r.params => r.params["vendor"] = filters'.vendor
            /\ "q" \in DOMAIN r.params => r.params["q"] = filters'.searchTerm
            /\ "since" \in DOMAIN r.params => r.params["since"] = filters'.since
     /\ (IsStep("next") /\ page = 0 /\ Len(jobs) = 50 /\ ~isLoading) =>
          /\ page' = 1
          /\ nextId' = nextId + 1
          /\ \A r \in lastReq' : r.params["offset"] = 50]_vars

\* C4 witness: Next was clicked on a full first page with a vendor filter
\* set; the request in flight is for offset 50 with the vendor parameter.
C4_Witness ==
  /\ lastOp.op = "next"
  /\ page = 1
  /\ Len(jobs) = PAGE_SIZE
  /\ \E r \in lastReq :
       /\ r \in inflight
       /\ r.params["offset"] = 50
       /\ "vendor" \in DOMAIN r.params

\* C5: when the most recently issued fetch fails, jobs becomes empty and a
\* non-empty error message is recorded, while filters, sortField,
\* sortDirection and page are unchanged.
C5_FailureClears ==
  [][\A r \in inflight :
      (IsStep("reject") /\ Settles(r) /\ r.id = nextId) =>
        /\ jobs' = <<>>
        /\ error' # Null /\ error' # ""
        /\ ~isLoading'
        /\ UNCHANGED <<filters, sortField, sortDirection, page>>]_vars

\* C5 witness: the fetch of page 1 failed with the list sorted by title and a
\* vendor filter set.
C5_Witness ==
  /\ lastOp.op = "reject"
  /\ error # Null
  /\ jobs = <<>>
  /\ ~isLoading
  /\ page = 1
  /\ sortField = "title"

\* C6: while the current fetch is outstanding, the rendered table body never
\* consists of job rows loaded by an earlier fetch.
C6_NoStaleRows ==
  (isLoading /\ TableVisible /\ jobsFrom # nextId) =>
    TableBody.kind = "skeleton"

\* C7 (as stated): every call of handleFiltersChange issues a new request.
C7_Original == [][IsStep("filters") => nextId' = nextId + 1]_vars

\* C7 (amended): a call of handleFiltersChange issues a new GET /jobs request
\* exactly when it changes page or a filter value; a call that leaves all of
\* them unchanged issues none and leaves isLoading, error and the pending
\* requests as they were.
C7_RefetchIffChanged ==
  [][IsStep("filters") =>
      IF page # 0 \/ filters' # filters
        THEN nextId' = nextId + 1 /\ isLoading'
        ELSE UNCHANGED <<nextId, inflight, isLoading, error, jobs>>]_vars

\* C7 witness: handleFiltersChange has just run on a settled page 0 and no
\* fetch is outstanding.
C7_Witness ==
  /\ lastOp.op = "filters"
  /\ ~isLoading
  /\ inflight = {}
  /\ page = 0
  /\ Len(jobs) = PAGE_SIZE

\* C8: handleSort(field) on the active field flips sortDirection and keeps
\* sortField; on another field it makes that field active with direction
\* desc for date and asc for title, location and company.
C8_HandleSort ==
  [][IsStep("sort") =>
      IF lastOp'.arg = sortField
        THEN /\ sortField' = sortField
             /\ sortDirection = "asc" => sortDirection' = "desc"
             /\ sortDirection = "desc" => sortDirection' = "asc"
        ELSE /\ sortField' = lastOp'.arg
             /\ lastOp'.arg = "date" => sortDirection' = "desc"
             /\ lastOp'.arg \in {"title", "location", "company"}
                  => sortDirection' = "asc"]_vars

\* C8 witness: the title column was activated (ascending) and clicked again,
\* so it is active and descending.
C8_Witness ==
  /\ lastOp.op = "sort"
  /\ lastOp.arg = "title"
  /\ sortField = "title"
  /\ sortDirection = "desc"

\* C9: sorting is idempotent (sorting the displayed order again by the same
\* field and direction gives the identical order) and toggling the direction
\* twice on the same field shows the order shown before the two toggles.
C9_SortIdempotent ==
  /\ SortedJobs(sortedJobs, sortField, sortDirection, engine) = sortedJobs
  /\ toggles = 2 => sortedJobs = baseShown

\* C10: while AdminRunsPage is mounted, exactly one 5-second interval is
\* armed when the applied run list contains a run with status "running" and
\* none is armed otherwise: a refresh without a running run stops the
\* scheduled refreshes and a later refresh with one arms the timer again.
C10_TimerIffRunning ==
  runsMounted = "yes" =>
    IF \E i \in 1..Len(runs) : runs[i].status = "running"
      THEN timers = <<5000>>
      ELSE timers = <<>>

\* C10 witness: a refresh issued by a poll tick has just returned a
\* non-empty list with no running run, and no timer is armed.
C10_Witness ==
  /\ runsMounted = "yes"
  /\ lastRunsOp = [op |-> "resolve", origin |-> "tick"]
  /\ runs # <<>>
  /\ timers = <<>>

\* C11: when a refresh issued by a poll tick fails while the page is mounted
\* and the interval is armed, the interval stays armed, so the refresh is
\* attempted again on the next tick.
C11_PollerRetries ==
  [][\A r \in runsInflight :
      ( /\ r.origin = "tick"
        /\ r \notin runsInflight'
        /\ lastRunsOp' = RunsOp("reject", "tick")
        /\ runsMounted = "yes"
        /\ timers # <<>> ) => timers' # <<>>]_vars

\* C13: the completion of a GET /runs refresh after which a newer refresh
\* was issued leaves the run list as it is.
C13_RunsStaleSuppressed ==
  [][\A r \in runsInflight :
      (r \notin runsInflight' /\ r.id < runsNextId) => runs' = runs]_vars

\* C14: while the logs modal is open exactly one GET /runs/{id}/logs has
\* been issued for it since it was opened, whatever run-list refreshes
\* happened meanwhile.
C14_OneShotLogFetch == selectedRun # 0 => logsSinceOpen = 1

\* C15: whenever the applied run list of the mounted page contains a queued
\* or running run, an interval is armed that will issue a further refresh
\* without user action.
C15_FreshWhileNonTerminal ==
  ( /\ runsMounted = "yes"
    /\ \E i \in 1..Len(runs) : runs[i].status \in {"queued", "running"} )
    => timers # <<>>

\* C20: once the fetch effect has run, isLoading is true exactly while the
\* most recently issued GET /jobs is outstanding, and the completion of a
\* superseded fetch while the newer one is outstanding leaves it true.
C20_LoadingTracksCurrent ==
  mounted =>
    /\ isLoading <=> (\E r \in inflight : r.id = nextId)
    /\ \A r \in inflight : r.cancelled <=> r.id < nextId

\* C20 witness: a superseded fetch has resolved, only the newest fetch is
\* still outstanding and isLoading is true.
C20_Witness ==
  /\ lastOp.op = "resolve"
  /\ nextId >= 2
  /\ jobsFrom < nextId
  /\ Cardinality(inflight) = 1
  /\ \A r \in inflight : r.id = nextId /\ ~r.cancelled
  /\ isLoading

AdminPages == {"AdminScrapePage", "AdminRunsPage", "AdminUsersPage"}

AdminPaths == {"/admin/scrape", "/admin/runs", "/admin/users"}

IsAdmin(user) == user.present /\ user.role = "admin"

\* C12: once the auth check is done, the router rests on a route that renders
\* a page; JobsPage is shown only with a session user and the admin pages
\* only with a session user of role admin; going to /jobs without a user or
\* to an admin path without an admin user ends at /login, an unknown path
\* ends at /, and when /auth/me answers authenticated=false on /jobs there
\* is no session user and the location becomes /login.
C12_RouteGating ==
  /\ [](authChecked =>
          /\ Shown.kind = "page"
          /\ Shown.name = "JobsPage" => currentUser.present
          /\ Shown.name \in AdminPages => IsAdmin(currentUser)
          /\ location = "/jobs" => Shown.name = "JobsPage"
          /\ location \in AdminPaths => Shown.name \in AdminPages
          /\ location # "/nope")
  /\ [][/\ lastAppOp'.op = "goto" =>
            /\ (lastAppOp'.arg = "/jobs" /\ ~currentUser.present)
                  => location' = "/login"
            /\ (lastAppOp'.arg \in AdminPaths /\ ~IsAdmin(currentUser))
                  => location' = "/login"
            /\ lastAppOp'.arg = "/nope" => location' = "/"
        /\ (lastAppOp' = AppOp("auth", "notAuthenticated")
              /\ location = "/jobs")
             => ~currentUser'.present /\ location' = "/login"]_vars

\* C12 witness: a signed-in user without the admin role went to
\* /admin/runs and rests on /login.
C12_Witness ==
  /\ authChecked
  /\ lastAppOp = AppOp("goto", "/admin/runs")
  /\ currentUser = User("user")
  /\ location = "/login"

\* C16: every request issued carries the cookies.
C16_CredentialsAlways == \A i \in 1..Len(sent) : CookiesCarried(sent[i])

\* C17: a request issued while the csrf_token cookie is present has the
\* header X-CSRFToken with the cookie's value.
C17_CsrfHeaderEchoed ==
  [][(Len(sent') > Len(sent) /\ csrfCookie # Null) =>
      LET r == sent'[Len(sent')] IN
      /\ "X-CSRFToken" \in DOMAIN r.headers
      /\ r.headers["X-CSRFToken"] = csrfCookie]_vars

\* Outcomes of GET /auth/me that are failures: a rejected request, a null
\* body, a body without the authenticated flag.
AuthFailures == AuthRejections \cup {"null", "noFlag"}

\* C18: when the initial GET /auth/me settles, in whatever way, authChecked
\* becomes true and the "Checking login" screen is left; when it settles
\* with a failure there is no session user.
C18_AuthFailureIsNoSession ==
  [][(authState = "pending" /\ authState' = "done") =>
      /\ authChecked'
      /\ Shown'.name # "CheckingLogin"
      /\ lastAppOp'.op = "auth"
      /\ lastAppOp'.arg \in AuthFailures => currentUser' = NoUser]_vars

\* C18 witness: /auth/me answered with a null body while the page was at a
\* protected path: the check is done, there is no user and the login page is
\* shown.
C18_Witness ==
  /\ lastAppOp = AppOp("auth", "null")
  /\ authChecked
  /\ currentUser = NoUser
  /\ Shown = Page("LoginPage")

\* The names of a list, and the non-empty Vendor values of a response.
NameSet(names) == {names[i] : i \in 1..Len(names)}

VendorSet(data) ==
  {data.rows[i].Vendor : i \in 1..Len(data.rows)} \ {Null, ""}

\* C19: after GET /vendors succeeded, the vendor list consists of the
\* distinct non-empty Vendor values of the response in alphabetical order,
\* none of them twice.
C19_VendorsDistinctSorted ==
  vendorsState = "done" =>
    /\ NameSet(vendors) = VendorSet(vendorsData)
    /\ \A i, j \in 1..Len(vendors) :
         i < j => localeCompare(vendors[i], vendors[j]) < 0

\* C21: Prev changes the page only when page > 0 and the current fetch has
\* completed, Next only when canGoNext holds, each by exactly one, and a
\* click that is not allowed changes nothing; the page index is never
\* negative.
C21_GuardedPageMoves ==
  /\ [](page >= 0)
  /\ [][/\ IsStep("prev") =>
            IF page > 0 /\ NoCurrentFetch
              THEN page' = page - 1
              ELSE UNCHANGED <<page, nextId, inflight>>
        /\ IsStep("next") =>
            IF canGoNext
              THEN page' = page + 1
              ELSE UNCHANGED <<page, nextId, inflight>>]_vars

\* C21 witness: Prev was clicked on page 1 after both pages had loaded; the
\* page is 0 again and its fetch is outstanding.
C21_Witness ==
  /\ lastOp.op = "prev"
  /\ page = 0
  /\ nextId = 3
  /\ isLoading
  /\ \E r \in inflight : r.id = 3 /\ r.params["offset"] = 0

\* C22: a call of handleSort issues no request, cancels none and leaves
\* jobs, page, filters, isLoading and error unchanged.
C22_SortIsPresentationOnly ==
  [][IsStep("sort") =>
      UNCHANGED <<nextId, inflight, lastReq, jobs, page, filters, isLoading,
                  error>>]_vars

\* C22 witness: a column that was not active was clicked while the current
\* fetch is outstanding; the fetch is still current and not cancelled.
C22_Witness ==
  /\ lastOp.op = "sort"
  /\ sortField # "date"
  /\ isLoading
  /\ \E r \in inflight : r.id = nextId /\ ~r.cancelled

\* C23: at most one issued GET /jobs is non-cancelled at any moment, and a
\* step that changes page or a filter value issues exactly one new request
\* and leaves every earlier pending request cancelled.
C23_OneLogicalFetch ==
  /\ [](Cardinality({r \in inflight : ~r.cancelled}) <= 1)
  /\ [][(page' # page \/ filters' # filters) =>
          /\ nextId' = nextId + 1
          /\ \E r \in inflight' : r.id = nextId' /\ ~r.cancelled
          /\ \A r \in inflight' : r.id <= nextId => r.cancelled
          /\ Ids(inflight') = Ids(inflight) \cup {nextId'}]_vars

\* C23 witness: a filter was changed on page 0 while the previous fetch was
\* pending: two requests are pending, the older one cancelled.
C23_Witness ==
  /\ lastOp.op = "filters"
  /\ Cardinality(inflight) = 2
  /\ \E r \in inflight : r.id = nextId - 1 /\ r.cancelled
  /\ \E r \in inflight : r.id = nextId /\ ~r.cancelled /\ "vendor" \in DOMAIN r.params

\* C28: a non-null error implies that the record list is empty.
C28_ErrorImpliesNoJobs == error # Null => jobs = <<>>

\* C28 witness: a fetch failed after a full page had been shown.
C28_Witness ==
  /\ error # Null
  /\ jobs = <<>>
  /\ lastOkLen = PAGE_SIZE
  /\ lastApplied.kind = "fail"

\* C24: the controller leaves Idle (isLoading false) only by issuing a
\* request and leaves Loading only when the most recently issued request
\* completes, with a success or a failure; and when every issued request
\* eventually completes, Loading always leads to Idle, also after earlier
\* fetches were superseded.
C24_FetchCycleProgress ==
  /\ [][/\ (~isLoading /\ isLoading') => nextId' = nextId + 1
        /\ (isLoading /\ ~isLoading') =>
             /\ \E r \in inflight : r.id = nextId /\ Settles(r)
             /\ lastApplied'.kind \in {"ok", "fail"}
             /\ jobsFrom' = nextId
             /\ UNCHANGED nextId]_vars
  /\ (isLoading ~> ~isLoading)

\* C24 witness: Idle was reached through a failure after an earlier fetch
\* had been superseded and had completed unapplied.
C24_Witness ==
  /\ ~isLoading
  /\ inflight = {}
  /\ nextId >= 2
  /\ lastApplied.kind = "fail"
  /\ lastOkLen = -1
  /\ jobsFrom = nextId

\* C26: at most one polling interval is armed at any time; the step in
\* which hasRunning becomes false or the page is torn down clears it; after
\* the teardown no interval is armed and no further GET /runs is issued.
C26_PollTimerReleased ==
  /\ [](Len(timers) <= 1)
  /\ [](runsMounted = "gone" => timers = <<>>)
  /\ [][/\ (hasRunning(runs) /\ ~hasRunning(runs')) => timers' = <<>>
        /\ (runsMounted = "yes" /\ runsMounted' = "gone") => timers' = <<>>
        /\ runsMounted = "gone" => UNCHANGED <<runsNextId, runs, timers>>]_vars

\* C26 witness: the page was torn down while a run was running and a
\* refresh issued by a tick was pending; no interval is armed.
C26_Witness ==
  /\ runsMounted = "gone"
  /\ hasRunning(runs)
  /\ \E r \in runsInflight : r.origin = "tick"
  /\ timers = <<>>

\* C27: a successful response of GET /jobs, GET /runs, GET /admin/users or
\* GET /vendors whose body is not an array leaves the list it loads empty
\* and sets no error.
C27_NonArrayCoerced ==
  [][/\ (jobsFrom' # jobsFrom /\ lastApplied'.kind = "ok"
          /\ ~lastApplied'.isArray)
          => jobs' = <<>> /\ error' = Null
     /\ (lastRunsOp'.op = "resolve" /\ runsBody' = "other")
          => runs' = <<>> /\ runsError' = Null
     /\ (usersState' = "done" /\ usersBody' = "other")
          => users' = <<>> /\ usersError' = Null
     /\ (vendorsState' = "done" /\ ~vendorsData'.isArray)
          => vendors' = <<>> /\ vendorsError' = Null]_vars

\* C27 witness: on the jobs route both GET /jobs and GET /vendors returned a
\* body that is not an array; both lists are empty and no error is set.
C27_Witness ==
  /\ location = "/jobs"
  /\ lastApplied.kind = "ok" /\ ~lastApplied.isArray
  /\ jobs = <<>> /\ error = Null /\ ~isLoading
  /\ vendorsState = "done" /\ ~vendorsData.isArray
  /\ vendors = <<>> /\ vendorsError = Null

\* C25: at most one debounce timer is pending; a keystroke leaves exactly
\* the timer it armed; the filter-change operation is invoked for searchTerm
\* only when at least 300 ms have passed since the last keystroke, with the
\* value the search box shows (empty mapped to null), and no timer is left.
C25_SearchDebounce ==
  /\ [](Cardinality(searchTimers) <= 1)
  /\ [][/\ keystrokes' # keystrokes =>
            searchTimers' = {[id |-> keystrokes', value |-> searchInput',
                              due |-> clock + 300]}
        /\ (lastOp' # lastOp /\ lastOp'.op = "search") =>
            /\ lastKeyAt >= 0
            /\ clock - lastKeyAt >= 300
            /\ lastOp'.arg = (IF searchInput = "" THEN Null ELSE searchInput)
            /\ filters'.searchTerm = lastOp'.arg
            /\ page' = 0
            /\ searchTimers' = {}]_vars

\* C25 witness: "d" and then "de" were typed within 300 ms, and the
\* debounced callback ran once, with "de".
C25_Witness ==
  /\ keystrokes = 2
  /\ lastOp.op = "search"
  /\ lastOp.arg = "de"
  /\ filters.searchTerm = "de"
  /\ nextId = 2
  /\ clock - lastKeyAt >= 300
  /\ lastKeyAt > 0 /\ lastKeyAt < 300

\* C29: the completion of the initial GET /auth/me is applied before any
\* login or register submission exists: a submission is pending or applied
\* only after the auth check is done, and when the check completes there is
\* no session user it could overwrite.
C29_AuthCheckBeforeLogin ==
  /\ []((loginPending > 0 \/ lastAppOp.op \in {"submit", "login"})
          => authState = "done" /\ authChecked)
  /\ [][(authState # "done" /\ authState' = "done")
          => currentUser = NoUser /\ loginPending = 0]_vars

\* C29 witness: after the auth check found no session, a login was applied
\* and its user is the session user.
C29_Witness ==
  /\ authState = "done"
  /\ lastAppOp = AppOp("login", "ok")
  /\ currentUser = User("user")
  /\ location = "/jobs"

\* handleSubmit ended in its catch block (setError on the form): apiPost
\* rejected, or `user.role` threw on a null body after onLogin(null).
LoginAttemptFailed(op) ==
  op.op = "loginFailed" \/ op = AppOp("login", "null")

\* C30: when handleLogout completes, after a successful or a failed
\* POST /auth/logout, currentUser is null; a login or register attempt that
\* fails (the form error is set) leaves currentUser unchanged.
C30_LogoutEndsSession ==
  [][/\ lastAppOp'.op = "loggedOut" => currentUser' = NoUser
     /\ (loginPending' < loginPending /\ LoginAttemptFailed(lastAppOp'))
          => UNCHANGED currentUser]_vars

====
